---- MODULE Spec2Model ----
(***************************************************************************)
(* Model of the instrument catalogue's reconciliation:                     *)
(* InstrumentoRepository.sincronizar_dados (src/src/database/repository.py)*)
(* run against the instrumentos table (src/src/database/models.py) through *)
(* one SQLAlchemy session (src/src/database/database.py).                  *)
(*                                                                         *)
(* Seven specifications share the variables:                               *)
(*   Spec      one run of sincronizar_dados, then the same batch again;    *)
(*   SpecNorm  SharePointManager._processar_dados_instrumentos on a raw    *)
(*             list, then sincronizar_dados on what it returned;           *)
(*   SpecDM    the calls of a DataManager (src/src/core/data_manager.py);  *)
(*   SpecConc  two runs of sincronizar_dados, each with its own session,   *)
(*             whose queries and commits interleave.                       *)
(*   SpecSP    the calls of one SharePointManager                          *)
(*             (src/src/core/sharepoint_manager.py);                       *)
(*   SpecAt    InstrumentoRepository.atualizar of                          *)
(*             src/src/database/repositories.py on a row of the table;     *)
(*   SpecGui   the main window and its worker threads                      *)
(*             (src/src/gui/main_window.py).                               *)
(* The variables a specification does not use stay at their initial value. *)
(*                                                                         *)
(* Values.  A JSON value or a column value is a string.  Python's None /   *)
(* SQL NULL is the token None, a JSON number (a non-text value) is the     *)
(* token NaoTexto.  A date (datetime.date) is a tuple <<year, month, day>>;*)
(* the NULL date is the empty tuple.                                       *)
(***************************************************************************)
EXTENDS Integers, Sequences, FiniteSets, TLC

\* ------------------------------------------------------------------ bounds
\* Longest incoming batch (instrumentos_json) a run is given.
MaxLote == 2
\* Longest batch of the earlier run that filled the table a behaviour starts from.
MaxInicial == 1
\* Most rows in a spreadsheet given to DataManager.carregar_dados.
MaxLinhas == 2
\* Longest list of raw records given to _processar_dados_instrumentos.
MaxBruto == 2
\* Longest batch given to each of two runs started side by side.
MaxConcorrente == 1
\* Most requests one SharePointManager sends in a behaviour.
MaxPedidos == 4
\* Most change-history entries written in a behaviour.
MaxHistorico == 2
\* Most starts of a worker from the main window in a behaviour.
MaxPartidas == 2

\* ------------------------------------------------------------------ values
None == "None"
NaoTexto == "#20260101"
DataNula == << >>

\* Python truthiness of a str-or-None value: None and "" are falsy.
Truthy(v) == v # None /\ v # ""

\* Python's `a or b`.
Ou(a, b) == IF Truthy(a) THEN a ELSE b

\* datetime.strptime(s, '%Y-%m-%d').date(): a date for a text in that format,
\* ValueError for any other text, TypeError for a value that is not text.
Strptime(s) ==
    CASE s = NaoTexto     -> [exc |-> "TypeError",  data |-> DataNula]
      [] s = "2026-01-01" -> [exc |-> "",           data |-> <<2026, 1, 1>>]
      [] s = "2026-1-1"   -> [exc |-> "",           data |-> <<2026, 1, 1>>]
      [] s = "2027-06-30" -> [exc |-> "",           data |-> <<2027, 6, 30>>]
      [] OTHER            -> [exc |-> "ValueError", data |-> DataNula]

\* date.isoformat() as Instrumento.to_dict renders validade_certificado.
Isoformat(d) ==
    CASE d = DataNula       -> None
      [] d = <<2026, 1, 1>>  -> "2026-01-01"
      [] d = <<2027, 6, 30>> -> "2027-06-30"
      [] OTHER               -> "?"

\* ------------------------------------------------------------------ inputs
\* One item of instrumentos_json: the keys sincronizar_dados reads with .get
\* (a key the item lacks reads as None).
Item(nome, serie, tipo, loc, validade) ==
    [Instrumento |-> nome, NumeroSerie |-> serie, Tipo |-> tipo,
     Localizacao |-> loc, ValidadeCertificado |-> validade,
     SPG |-> "-", Ensaio |-> "-", Marca |-> "-", Modelo |-> "-",
     Faixa |-> "-", Unidade |-> "-", Status |-> "Ativo", Classe |-> "-",
     Certificado |-> "-", Descricao |-> "-", CriterioAceitacao |-> "-",
     IntervaloOperacao |-> "-"]

\* Items a run accepts: two names and the empty name; a serial number, the
\* placeholder, no serial number, and a serial number that is also a name;
\* two locations; a valid, a malformed and a placeholder expiry.
ItensRegulares ==
    { Item("A", "S1", "T", "L1", "2026-01-01"),
      Item("A", "S1", "T", "L2", "2026-01-01"),
      Item("A", "S1", "T", "L1", "01/01/2026"),
      Item("B", "S1", "T", "L2", "-"),
      Item("A", "-",  "T", "L1", "2026-01-01"),
      Item("B", "-",  "T", "L1", "2026-01-01"),
      Item("A", None, "T", "L1", "2026-01-01"),
      Item("B", "A",  "T", "L1", "2026-01-01"),
      Item("",  None, "T", "L1", "2026-01-01") }

\* Items that make a run fail: a missing mandatory value (type, name) and an
\* expiry that is not text.
ItensDefeituosos ==
    { Item("A", "S1", None, "L1", "-"),
      Item(None, "S1", "T", "L1", "-"),
      Item("B", "-", "T", "L1", NaoTexto) }

Itens == ItensRegulares \cup ItensDefeituosos

LotesAte(n) == UNION { [1..k -> Itens] : k \in 0..n }

Lotes == LotesAte(MaxLote)

\* ------------------------------------------------------------------ table
\* The columns of Instrumento that sincronizar_dados assigns, from one item
\* and its converted expiry date.
Campos(r, validade) ==
    [spg |-> r.SPG, ensaio |-> r.Ensaio, nome |-> r.Instrumento,
     tipo |-> r.Tipo, marca |-> r.Marca, modelo |-> r.Modelo,
     numero_serie |-> r.NumeroSerie, localizacao |-> r.Localizacao,
     faixa |-> r.Faixa, unidade |-> r.Unidade, status |-> r.Status,
     classe |-> r.Classe, certificado |-> r.Certificado,
     descricao |-> r.Descricao, validade_certificado |-> validade,
     criterio_aceitacao |-> r.CriterioAceitacao,
     intervalo_operacao |-> r.IntervaloOperacao]

\* A row of the instrumentos table: the assigned columns plus the surrogate
\* id and the creation timestamp (the number of the run that inserted it).
Linha(id, criacao, campos) ==
    [id |-> id, data_criacao |-> criacao] @@ campos

\* The nullable=False columns: a row is storable when both hold a value.
NotNullOk(e) == e.nome # None /\ e.tipo # None

\* The id of a new row: the table has an INTEGER PRIMARY KEY, so the store
\* gives max(id) + 1 of the rows present at the INSERT.
MaxIdDe(linhas) == IF linhas = << >> THEN 0 ELSE linhas[Len(linhas)].id

\* ------------------------------------------------------------------ state
VARIABLES
    db,            \* committed rows of instrumentos, in id order (query order)
    historico,     \* committed change-history entries
    historicoAntes,\* the change history as it was before the last call
    runs,          \* number of sincronizar_dados calls made so far (the clock)
    antes,         \* the rows as they were before the last call
    lote,          \* the batch given to the last call
    resultado,     \* "nenhum" | "ok" | "erro": how the last call ended
    estatisticas,  \* the dict the last call returned (zeros if it raised)
    resolvidos,    \* per item of the last batch: id of the matched row, 0 if new
    repetido,      \* the last call was given the same batch as the one before
    sessao,        \* "" | "commit" | "rollback": how the last call ended its transaction
    excecao,       \* the exception the last call raised to its caller, "" if none
    dados,         \* DataManager.dados: << >> for None, <<frame>> once assigned
    dadosAntes,    \* DataManager.dados as it was before the last call
    arquivo,       \* the spreadsheet given to the last carregar_dados
    chamada,       \* the DataManager method called last, "" before any call
    retorno,       \* what that call gave: [exc, lista]
    bruto,         \* the raw records given to _processar_dados_instrumentos
    saida,         \* the list _processar_dados_instrumentos returned
    logNorm,       \* the warnings and errors it logged, in order
    fase,          \* "" | "bruto" | "processado" | "sincronizado"
    pc,            \* per concurrent run: "" | "inicio" | "consultado" | "fim"
    visto,         \* per concurrent run: the rows its query returned
    pedido,        \* per concurrent run: the batch it was given
    desfecho,      \* per concurrent run: "" | "ok" | "erro"
    inseridos,     \* per concurrent run: the ids of the rows it inserted
    eventos,         \* the queries and commits of the concurrent runs, in order
    sp,            \* the SharePointManager: [session, pedidos, dados_instrumentos]
    spAntes,       \* the manager as it was before the last call
    spChamada,     \* the SharePointManager method called last, "" before any call
    spEntrada,     \* what the server (and the disk) answered to that call
    spExc,         \* the exception that call raised, "" if it returned
    spDesconectado,\* a desconectar() had returned before the last call was made
    atChamada,     \* << >>, or <<[id, dados, commit]>>: the last atualizar() asked for
    atRetorno,     \* "" | "True" | "False" | the exception that kept it from running
    janela,        \* the MainWindow: its widgets and attributes
    workers,       \* the worker threads created so far, in order of creation
    fila,          \* the signals of the workers the GUI thread has yet to handle
    partidas       \* number of times a start handler has disabled the widgets

\* The state of the reconciliation, and the state of the DataManager.
varsSinc == <<db, historico, historicoAntes, runs, antes, lote, resultado,
              estatisticas, resolvidos, repetido, sessao, excecao>>

varsDM == <<dados, dadosAntes, arquivo, chamada, retorno>>

varsNorm == <<bruto, saida, logNorm, fase>>

varsConc == <<pc, visto, pedido, desfecho, inseridos, eventos>>

varsSP == <<sp, spAntes, spChamada, spEntrada, spExc, spDesconectado>>

\* The state of the parts that the reconciliation does not touch.
varsAt == <<atChamada, atRetorno>>

varsGui == <<janela, workers, fila, partidas>>

varsResto == <<varsSP, varsAt, varsGui>>

vars == <<varsSinc, varsDM, varsNorm, varsConc, varsResto>>

\* Two invocations of main(), each with its own session on the same database.
Execucoes == {1, 2}

Zeros == [adicionados |-> 0, atualizados |-> 0, removidos |-> 0, avisos |-> 0]

\* ------------------------------------------------------------------ lookup
Maior(S) == CHOOSE x \in S : \A y \in S : y <= x

\* {inst.numero_serie: inst for inst in instrumentos_existentes if inst.numero_serie}
\* as key -> position in the snapshot; a later row replaces an earlier one.
IndicePorNumeroSerie(snap) ==
    [k \in {snap[i].numero_serie : i \in {j \in 1..Len(snap) : Truthy(snap[j].numero_serie)}}
        |-> Maior({i \in 1..Len(snap) : snap[i].numero_serie = k})]

\* {inst.nome: inst for inst in instrumentos_existentes if inst.nome}
IndicePorNome(snap) ==
    [k \in {snap[i].nome : i \in {j \in 1..Len(snap) : Truthy(snap[j].nome)}}
        |-> Maior({i \in 1..Len(snap) : snap[i].nome = k})]

\* Localizar with the two lookups in the other order: the name first.
LocalizarPorNomePrimeiro(porSerie, porNome, r) ==
    IF Truthy(r.Instrumento) /\ r.Instrumento \in DOMAIN porNome
        THEN porNome[r.Instrumento]
    ELSE IF Truthy(r.NumeroSerie) /\ r.NumeroSerie \in DOMAIN porSerie
        THEN porSerie[r.NumeroSerie]
    ELSE 0

\* Position of the row an item resolves to, 0 when it resolves to none.
Localizar(porSerie, porNome, r) ==
    IF Truthy(r.NumeroSerie) /\ r.NumeroSerie \in DOMAIN porSerie
        THEN porSerie[r.NumeroSerie]
    ELSE IF Truthy(r.Instrumento) /\ r.Instrumento \in DOMAIN porNome
        THEN porNome[r.Instrumento]
    ELSE 0

\* The expiry conversion: [exc, data, aviso].  A placeholder or absent value
\* is not converted; a ValueError is caught and counted; anything else the
\* conversion raises escapes the loop.
ConverterValidade(r) ==
    LET v == r.ValidadeCertificado
        p == Strptime(v)
    IN  IF ~(Truthy(v) /\ v # "-")
            THEN [exc |-> "", data |-> DataNula, aviso |-> 0]
        ELSE IF p.exc = "ValueError"
            THEN [exc |-> "", data |-> DataNula, aviso |-> 1]
        ELSE [exc |-> p.exc, data |-> p.data, aviso |-> 0]

\* AtualizarExistente that also stamps the creation time anew.
AtualizarComNovaCriacao(e, r, validade) ==
    Linha(e.id, e.data_criacao + 1, Campos(r, validade))

\* The matched branch: every column is assigned from the item.
AtualizarExistente(e, r, validade) ==
    Linha(e.id, e.data_criacao, Campos(r, validade))

\* CriarNovo with the localizacao argument left out of the constructor call.
CriarNovoSemLocalizacao(r, validade) ==
    [Campos(r, validade) EXCEPT !.localizacao = None]

\* The unmatched branch: Instrumento(...) from the item, not yet flushed.
CriarNovo(r, validade) == Campos(r, validade)

\* processados after one item.
MarcarProcessado(processados, r) ==
    IF Truthy(r.NumeroSerie) THEN processados \cup {r.NumeroSerie}
    ELSE IF Truthy(r.Instrumento) THEN processados \cup {r.Instrumento}
    ELSE processados

\* ------------------------------------------------------------------ session
\* The session after the query: the snapshot's objects (ents, by position),
\* nothing pending, the two indexes, the counters at zero.
SessaoInicial(snap) ==
    [ents |-> snap, novos |-> << >>, apagar |-> {},
     porSerie |-> IndicePorNumeroSerie(snap), porNome |-> IndicePorNome(snap),
     adicionados |-> 0, atualizados |-> 0, removidos |-> 0, avisos |-> 0,
     processados |-> {}, res |-> << >>, exc |-> ""]

\* Passo whose matched branch does not count the item.
PassoSemContarAtualizado(s, r) ==
    LET pos == Localizar(s.porSerie, s.porNome, r)
        c   == ConverterValidade(r)
    IN  IF s.exc # "" THEN s
        ELSE IF c.exc # "" THEN [s EXCEPT !.exc = c.exc]
        ELSE IF pos # 0
            THEN [s EXCEPT !.ents[pos] = AtualizarExistente(s.ents[pos], r, c.data),
                           !.avisos = @ + c.aviso,
                           !.processados = MarcarProcessado(@, r),
                           !.res = Append(@, s.ents[pos].id)]
        ELSE [s EXCEPT !.novos = Append(@, CriarNovo(r, c.data)),
                       !.adicionados = @ + 1,
                       !.avisos = @ + c.aviso,
                       !.processados = MarcarProcessado(@, r),
                       !.res = Append(@, 0)]

\* One iteration of `for inst_json in instrumentos_json`.
Passo(s, r) ==
    LET pos == Localizar(s.porSerie, s.porNome, r)
        c   == ConverterValidade(r)
    IN  IF s.exc # "" THEN s
        ELSE IF c.exc # "" THEN [s EXCEPT !.exc = c.exc]
        ELSE IF pos # 0
            THEN [s EXCEPT !.ents[pos] = AtualizarExistente(s.ents[pos], r, c.data),
                           !.atualizados = @ + 1,
                           !.avisos = @ + c.aviso,
                           !.processados = MarcarProcessado(@, r),
                           !.res = Append(@, s.ents[pos].id)]
        ELSE [s EXCEPT !.novos = Append(@, CriarNovo(r, c.data)),
                       !.adicionados = @ + 1,
                       !.avisos = @ + c.aviso,
                       !.processados = MarcarProcessado(@, r),
                       !.res = Append(@, 0)]

RECURSIVE Laco(_, _, _)
Laco(snap, itens, k) ==
    IF k = 0 THEN SessaoInicial(snap)
    ELSE Passo(Laco(snap, itens, k - 1), itens[k])

\* Remover that counts every row it examines as removed.
RemoverContandoTodos(s) ==
    LET fora == {i \in 1..Len(s.ents) :
                    LET identificador == Ou(s.ents[i].numero_serie, s.ents[i].nome)
                    IN  Truthy(identificador) /\ identificador \notin s.processados}
    IN  IF s.exc # "" THEN s
        ELSE [s EXCEPT !.apagar = fora, !.removidos = Len(s.ents)]

\* Remover without the `identificador and` guard.
RemoverSemGuarda(s) ==
    LET fora == {i \in 1..Len(s.ents) :
                    Ou(s.ents[i].numero_serie, s.ents[i].nome) \notin s.processados}
    IN  IF s.exc # "" THEN s
        ELSE [s EXCEPT !.apagar = fora, !.removidos = Cardinality(fora)]

\* `for inst in instrumentos_existentes`: the rows to delete, by position.
\* The identifier is read from the object as the loop left it.
Remover(s) ==
    LET fora == {i \in 1..Len(s.ents) :
                    LET identificador == Ou(s.ents[i].numero_serie, s.ents[i].nome)
                    IN  Truthy(identificador) /\ identificador \notin s.processados}
    IN  IF s.exc # "" THEN s
        ELSE [s EXCEPT !.apagar = fora, !.removidos = Cardinality(fora)]

\* The statements the flush of commit() issues, in the unit of work's order:
\* an UPDATE for each loaded object the loop changed, an INSERT for each
\* pending object in the order of add(), a DELETE for each deleted object.
Escritas(snap, s) ==
    LET mudou == {i \in 1..Len(snap) : i \notin s.apagar /\ s.ents[i] # snap[i]}
        RECURSIVE Sel(_, _, _)
        Sel(op, S, k) ==
            IF k = 0 THEN << >>
            ELSE IF k \in S
                THEN Append(Sel(op, S, k - 1),
                            [op |-> op, id |-> snap[k].id,
                             campos |-> s.ents[k]])
            ELSE Sel(op, S, k - 1)
    IN  Sel("UPDATE", mudou, Len(snap))
        \o [i \in 1..Len(s.novos) |->
                [op |-> "INSERT", id |-> 0, campos |-> s.novos[i]]]
        \o Sel("DELETE", s.apagar, Len(snap))

\* One statement on the table inside the transaction.  An INSERT takes the
\* next id and the current time as data_criacao.
Executar(tab, e, agora) ==
    CASE e.op = "UPDATE" ->
            [i \in 1..Len(tab) |-> IF tab[i].id = e.id THEN e.campos ELSE tab[i]]
      [] e.op = "INSERT" ->
            Append(tab, Linha(MaxIdDe(tab) + 1, agora, e.campos))
      [] e.op = "DELETE" ->
            SelectSeq(tab, LAMBDA x : x.id # e.id)

\* A statement the store refuses: a NULL in a nullable=False column.
Recusada(e) == e.op # "DELETE" /\ ~NotNullOk(e.campos)

\* The flush of the first k statements: the table inside the transaction,
\* and whether a statement was refused (IntegrityError); the statements after
\* a refused one are not issued.
RECURSIVE Flush(_, _, _, _)
Flush(tab, escritas, k, agora) ==
    IF k = 0 THEN [ok |-> TRUE, tab |-> tab]
    ELSE LET f == Flush(tab, escritas, k - 1, agora)
         IN  IF ~f.ok THEN f
             ELSE IF Recusada(escritas[k]) THEN [ok |-> FALSE, tab |-> f.tab]
             ELSE [ok |-> TRUE, tab |-> Executar(f.tab, escritas[k], agora)]

\* An except branch that does not roll back: what the transaction wrote stays.
SemRollback(snap, tx) == tx

\* The except branch's self.db.rollback(): the statements the transaction
\* has issued are undone; the table is as the query found it.
Rollback(snap, tx) == snap

\* The counters as the statistics dict.
Contadores(s) ==
    [adicionados |-> s.adicionados, atualizados |-> s.atualizados,
     removidos |-> s.removidos, avisos |-> s.avisos]

\* An except branch that logs the error and returns the counters instead of
\* raising.
EntregarSemRaise(s, f) ==
    [ok |-> TRUE, estatisticas |-> Contadores(s), exc |-> ""]

\* What the call hands its caller: the statistics dict after the commit, or
\* from the except branch the exception that ended the try block.
Entregar(s, f) ==
    IF f.ok
        THEN [ok |-> TRUE, estatisticas |-> Contadores(s), exc |-> ""]
    ELSE [ok |-> FALSE, estatisticas |-> Zeros,
          exc |-> IF s.exc # "" THEN s.exc ELSE "IntegrityError"]

\* The whole of sincronizar_dados on the table `snap` at time `agora`.
Sincronizar(snap, itens, agora) ==
    LET s == Remover(Laco(snap, itens, Len(itens)))
        w == Escritas(snap, s)
        f == IF s.exc # "" THEN [ok |-> FALSE, tab |-> snap]
             ELSE Flush(snap, w, Len(w), agora)
        t == Entregar(s, f)
    IN  [ok |-> t.ok,
         linhas |-> IF f.ok THEN f.tab ELSE Rollback(snap, f.tab),
         fim |-> IF f.ok THEN "commit" ELSE "rollback",
         estatisticas |-> t.estatisticas,
         res |-> s.res,
         exc |-> t.exc]

\* ------------------------------------------------------------------ normalizer
\* The keys of the dict _processar_dados_instrumentos builds for a record.
CamposCanonicos ==
    {"SPG", "Ensaio", "Instrumento", "Tipo", "Marca", "Modelo", "NumeroSerie",
     "Localizacao", "Faixa", "Unidade", "Status", "Classe", "Certificado",
     "Descricao", "ValidadeCertificado", "CriterioAceitacao",
     "IntervaloOperacao"}

\* The canonical fields copied from one raw key with str().
CampoBruto ==
    [Instrumento |-> "name", Tipo |-> "type", Marca |-> "brand",
     Modelo |-> "model", NumeroSerie |-> "serial_num",
     Localizacao |-> "location", Faixa |-> "range",
     Descricao |-> "description", Certificado |-> "certif_num",
     ValidadeCertificado |-> "certif_end_date",
     CriterioAceitacao |-> "acceptance_status"]

\* str(v) of a JSON value: a text is itself, null is the text 'None' (which
\* is not the value None), a number (a token "#n") is its digits.
TextoNone == "'None'"

Str(v) ==
    CASE v = None        -> TextoNone
      [] v = "#0"        -> "0"
      [] v = "#1"        -> "1"
      [] v = "#10"       -> "10"
      [] v = NaoTexto    -> "20260101"
      [] OTHER           -> v

\* Python truthiness of a JSON scalar: null, "" and 0 are falsy.
Verdadeiro(v) == v # None /\ v # "" /\ v # "#0"

\* re.search(r'\[(SPG\d+)\]', exp_name): the group, "" when there is no match.
SpgMatch(s) ==
    CASE s = "[SPG0121] Ensaio 102" -> "SPG0121"
      [] s = "[SPG0121]"            -> "SPG0121"
      [] OTHER                      -> ""

\* re.search(r'Ensaio\s+(\d+)', exp_name): the group, "" when no match.
EnsaioMatch(s) ==
    CASE s = "[SPG0121] Ensaio 102" -> "102"
      [] s = "Ensaio 102"           -> "102"
      [] OTHER                      -> ""

\* dict.get(k, padrao).
GetOu(d, k, padrao) == IF k \in DOMAIN d THEN d[k] ELSE padrao

\* The operating interval from inst_range (a list of range dicts): the text
\* built from its first dict when that has a truthy max and unit, "-" else.
IntervaloDe(c) ==
    IF "inst_range" \notin DOMAIN c THEN "-"
    ELSE IF c["inst_range"] = << >> THEN "-"
    ELSE LET range_info == c["inst_range"][1]
             min_val == GetOu(range_info, "min", "0")
             max_val == GetOu(range_info, "max", "")
             unit    == GetOu(range_info, "unit", "")
         IN  IF Verdadeiro(max_val) /\ Verdadeiro(unit)
                 THEN Str(min_val) \o " - " \o Str(max_val) \o " " \o Str(unit)
             ELSE "-"

\* instrumento_processado before the placeholders are removed: the defaults
\* overwritten by what the raw dict `c` supplies.
Mapear(c) ==
    [k \in CamposCanonicos |->
        IF k \in DOMAIN CampoBruto
            THEN IF CampoBruto[k] \in DOMAIN c THEN Str(c[CampoBruto[k]]) ELSE "-"
        ELSE IF k = "SPG"
            THEN IF "exp_name" \in DOMAIN c /\ SpgMatch(Str(c["exp_name"])) # ""
                     THEN SpgMatch(Str(c["exp_name"])) ELSE "-"
        ELSE IF k = "Ensaio"
            THEN IF "exp_name" \in DOMAIN c /\ EnsaioMatch(Str(c["exp_name"])) # ""
                     THEN "Ensaio " \o EnsaioMatch(Str(c["exp_name"])) ELSE "-"
        ELSE IF k = "Status"
            THEN IF "sensor_status" \in DOMAIN c /\ c["sensor_status"] = "#1"
                     THEN "Ativo"
                 ELSE IF "sensor_status" \in DOMAIN c /\ c["sensor_status"] = "#0"
                     THEN "Bloqueado"
                 ELSE "-"
        ELSE IF k = "IntervaloOperacao" THEN IntervaloDe(c)
        ELSE "-"]

\* {k: v for k, v in instrumento_processado.items() if v != '-'}
RemoverVazios(d) == [k \in {j \in DOMAIN d : d[j] # "-"} |-> d[k]]

\* campos_faltantes
CamposFaltantes(d) == {"Instrumento", "Tipo"} \ DOMAIN d

\* The result so far: the list and the log.
NormInicial == [lista |-> << >>, log |-> << >>]

\* One iteration of `for idx, instrumento in enumerate(dados)`.  An element
\* that is not a dict raises TypeError at the first `in`, which the except
\* branch logs; a record without a mandatory field is logged and skipped.
PassoNorm(n, idx, raw) ==
    IF ~raw.dict
        THEN [n EXCEPT !.log = Append(@, [nivel |-> "error", idx |-> idx,
                                         campos |-> {}])]
    ELSE LET d == RemoverVazios(Mapear(raw.campos))
         IN  IF CamposFaltantes(d) # {}
                 THEN [n EXCEPT !.log = Append(@, [nivel |-> "warning",
                                                  idx |-> idx,
                                                  campos |-> CamposFaltantes(d)])]
             ELSE [n EXCEPT !.lista = Append(@, d)]

RECURSIVE LacoNorm(_, _)
LacoNorm(brutos, k) ==
    IF k = 0 THEN NormInicial
    ELSE PassoNorm(LacoNorm(brutos, k - 1), k, brutos[k])

\* _processar_dados_instrumentos(dados).
ProcessarDadosInstrumentos(brutos) == LacoNorm(brutos, Len(brutos))

\* _formatar_data(data): the date of a text in one of the eight accepted
\* formats as YYYY-MM-DD, "-" for an empty or unrecognised text.
FormatarData(data) ==
    CASE ~Truthy(data)                  -> "-"
      [] data = "2026-01-01"            -> "2026-01-01"
      [] data = "2026-1-1"              -> "2026-01-01"
      [] data = "01/01/2026"            -> "2026-01-01"
      [] data = "01-01-2026"            -> "2026-01-01"
      [] data = "2026/01/01"            -> "2026-01-01"
      [] data = "01/01/2026 14:30:00"   -> "2026-01-01"
      [] data = "2027-06-30"            -> "2027-06-30"
      [] OTHER                          -> "-"

\* A raw element: a dict (its keys and values) or something that is no dict.
Dict(campos) == [dict |-> TRUE, campos |-> campos]

NaoDict == [dict |-> FALSE, campos |-> [k \in {} |-> ""]]

\* The raw elements a list is drawn from: a full record; a record with a
\* date in another accepted format; records whose name is empty, null, the
\* placeholder or absent; a record without a type; an empty dict; a number;
\* a record with numeric and unmatched values.
ElementosBrutos ==
    { Dict([name |-> "A", type |-> "T", serial_num |-> "S1", location |-> "L1",
            certif_end_date |-> "2026-01-01",
            exp_name |-> "[SPG0121] Ensaio 102", sensor_status |-> "#1",
            inst_range |-> << [min |-> "#0", max |-> "#10", unit |-> "bar"] >>]),
      Dict([name |-> "B", type |-> "T", certif_end_date |-> "01/01/2026"]),
      Dict([name |-> "", type |-> "T", serial_num |-> ""]),
      Dict([name |-> None, type |-> "T"]),
      Dict([name |-> "-", type |-> "T"]),
      Dict([type |-> "T", serial_num |-> "S1"]),
      Dict([name |-> "A"]),
      Dict([k \in {} |-> ""]),
      NaoDict,
      Dict([name |-> "B", type |-> "T", serial_num |-> NaoTexto,
            certif_end_date |-> "amanha", exp_name |-> "Ensaio 102",
            sensor_status |-> "#0",
            inst_range |-> << [min |-> "#0", max |-> "#10"] >>]) }

\* obter_lista_instrumentos refuses an empty list before the normalizer.
Brutos == UNION { [1..k -> ElementosBrutos] : k \in 1..MaxBruto }

\* A record of the list as sincronizar_dados reads it: inst_json.get(key)
\* is None for a key the record does not hold.
ComoItem(d) ==
    [Instrumento |-> GetOu(d, "Instrumento", None),
     NumeroSerie |-> GetOu(d, "NumeroSerie", None),
     Tipo |-> GetOu(d, "Tipo", None),
     Localizacao |-> GetOu(d, "Localizacao", None),
     ValidadeCertificado |-> GetOu(d, "ValidadeCertificado", None),
     SPG |-> GetOu(d, "SPG", None), Ensaio |-> GetOu(d, "Ensaio", None),
     Marca |-> GetOu(d, "Marca", None), Modelo |-> GetOu(d, "Modelo", None),
     Faixa |-> GetOu(d, "Faixa", None), Unidade |-> GetOu(d, "Unidade", None),
     Status |-> GetOu(d, "Status", None), Classe |-> GetOu(d, "Classe", None),
     Certificado |-> GetOu(d, "Certificado", None),
     Descricao |-> GetOu(d, "Descricao", None),
     CriterioAceitacao |-> GetOu(d, "CriterioAceitacao", None),
     IntervaloOperacao |-> GetOu(d, "IntervaloOperacao", None)]

\* No normalizer call in progress.
InicioNorm ==
    /\ bruto = << >>
    /\ saida = << >>
    /\ logNorm = << >>
    /\ fase = ""

\* ------------------------------------------------------------------ DataManager
\* colunas_necessarias of carregar_dados.
ColunasNecessarias ==
    {"SPG", "Ensaio", "Instrumento", "Tag", "Localizacao", "Faixa", "Unidade",
     "Classe", "Ultima Calibracao", "Proxima Calibracao", "Status"}

\* A spreadsheet path: whether the file exists, the columns of its sheet and
\* its rows (the SPG and Ensaio cells; a sheet without the column has none).
NaoExiste == [existe |-> FALSE, colunas |-> {}, linhas |-> << >>]

LinhasDePlanilha ==
    { [SPG |-> "SPG0121", Ensaio |-> "Ensaio 101"],
      [SPG |-> "SPG0121", Ensaio |-> "Ensaio 102"],
      [SPG |-> "SPG0200", Ensaio |-> "Ensaio 101"] }

Arquivos ==
    {NaoExiste} \cup
    { [existe |-> TRUE, colunas |-> c, linhas |-> l] :
        c \in { ColunasNecessarias,
                ColunasNecessarias \ {"SPG"},
                ColunasNecessarias \ {"Status"} },
        l \in UNION { [1..k -> LinhasDePlanilha] : k \in 0..MaxLinhas } }

\* pd.read_excel(arquivo_excel): the sheet as a DataFrame.
ReadExcel(a) == [colunas |-> a.colunas, linhas |-> a.linhas]

\* colunas_faltantes for a DataFrame.
ColunasFaltantes(frame) == ColunasNecessarias \ frame.colunas

\* carregar_dados(arquivo_excel) on a manager whose dados is `atual`: the
\* value of self.dados when the call ends, and the exception it raised.
CarregarDados(atual, a) ==
    IF ~a.existe
        THEN [dados |-> atual, exc |-> "ValueError"]
    ELSE LET lido == <<ReadExcel(a)>>
         IN  IF ColunasFaltantes(lido[1]) # {}
                 THEN [dados |-> lido, exc |-> "ValueError"]
             ELSE [dados |-> lido, exc |-> ""]

\* sorted(...unique().tolist()) over the values that occur: the values in
\* their sort order.
OrdemSPG == <<"SPG0121", "SPG0200">>

OrdemEnsaio == <<"Ensaio 101", "Ensaio 102">>

Ordenados(ordem, S) == SelectSeq(ordem, LAMBDA x : x \in S)

\* obter_spgs(): ValueError without data, KeyError when the frame has no SPG
\* column, otherwise the SPGs of the frame.
ObterSpgs(d) ==
    IF d = << >> THEN [exc |-> "ValueError", lista |-> << >>]
    ELSE IF "SPG" \notin d[1].colunas THEN [exc |-> "KeyError", lista |-> << >>]
    ELSE [exc |-> "",
          lista |-> Ordenados(OrdemSPG,
                        {d[1].linhas[i].SPG : i \in 1..Len(d[1].linhas)})]

\* obter_ensaios(spg).
ObterEnsaios(d, spg) ==
    IF d = << >> THEN [exc |-> "ValueError", lista |-> << >>]
    ELSE IF {"SPG", "Ensaio"} \ d[1].colunas # {}
        THEN [exc |-> "KeyError", lista |-> << >>]
    ELSE [exc |-> "",
          lista |-> Ordenados(OrdemEnsaio,
                        {d[1].linhas[i].Ensaio :
                            i \in {j \in 1..Len(d[1].linhas) : d[1].linhas[j].SPG = spg}})]

\* A DataManager right after construction.
InicioDM ==
    /\ dados = << >>
    /\ dadosAntes = << >>
    /\ arquivo = NaoExiste
    /\ chamada = ""
    /\ retorno = [exc |-> "", lista |-> << >>]

ChamarCarregarDados ==
    \E a \in Arquivos :
        LET r == CarregarDados(dados, a)
        IN  /\ dados' = r.dados
            /\ dadosAntes' = dados
            /\ arquivo' = a
            /\ chamada' = "carregar_dados"
            /\ retorno' = [exc |-> r.exc, lista |-> << >>]
            /\ UNCHANGED <<varsSinc, varsNorm, varsConc, varsResto>>

ChamarObterSpgs ==
    /\ chamada # ""
    /\ chamada' = "obter_spgs"
    /\ retorno' = ObterSpgs(dados)
    /\ dadosAntes' = dados
    /\ UNCHANGED <<dados, arquivo, varsSinc, varsNorm, varsConc, varsResto>>

ChamarObterEnsaios ==
    /\ chamada # ""
    /\ \E spg \in {OrdemSPG[i] : i \in 1..Len(OrdemSPG)} :
          retorno' = ObterEnsaios(dados, spg)
    /\ chamada' = "obter_ensaios"
    /\ dadosAntes' = dados
    /\ UNCHANGED <<dados, arquivo, varsSinc, varsNorm, varsConc, varsResto>>

\* The reconciliation before any run, on an empty table.
InicioSinc ==
    /\ db = << >>
    /\ historico = << >>
    /\ historicoAntes = << >>
    /\ runs = 0
    /\ antes = << >>
    /\ lote = << >>
    /\ resultado = "nenhum"
    /\ estatisticas = Zeros
    /\ resolvidos = << >>
    /\ repetido = FALSE
    /\ sessao = ""
    /\ excecao = ""

\* No concurrent run started.
InicioConc ==
    /\ pc = [p \in Execucoes |-> ""]
    /\ visto = [p \in Execucoes |-> << >>]
    /\ pedido = [p \in Execucoes |-> << >>]
    /\ desfecho = [p \in Execucoes |-> ""]
    /\ inseridos = [p \in Execucoes |-> {}]
    /\ eventos = << >>

\* ------------------------------------------------------------------ SharePointManager
\* The manager after __init__: a requests.Session of its own, no data yet.
\* pedidos counts the requests its session has sent.
SharePointManagerInicial ==
    [session |-> "Session", pedidos |-> 0, dados_instrumentos |-> None]

\* How the server answers conectar(): a request fails (no route, timeout, an
\* error status), the login page has no form, the credentials are refused,
\* the test page is the login page again, or all three requests go well.
RoteirosDeConexao ==
    {"falha_login", "sem_formulario", "falha_post", "credenciais",
     "falha_teste", "nao_autenticado", "ok"}

\* The requests conectar() has sent when it ends: the GET of the login page,
\* the POST of the form, the GET of the test page.
PedidosDeConectar(roteiro) ==
    CASE roteiro \in {"falha_login", "sem_formulario"} -> 1
      [] roteiro \in {"falha_post", "credenciais"}     -> 2
      [] OTHER                                         -> 3

\* conectar(): every exception is logged and raised again as it is.
Conectar(m, roteiro) ==
    IF m.session = None
    THEN [m |-> m, exc |-> "AttributeError"]
    ELSE [m |-> [m EXCEPT !.pedidos = @ + PedidosDeConectar(roteiro)],
          exc |-> CASE roteiro \in {"falha_login", "falha_post", "falha_teste"}
                         -> "RequestException"
                    [] roteiro = "ok" -> ""
                    [] OTHER -> "ValueError"]

\* desconectar() that closes the session and keeps the object.
DesconectarSemAnular(m) ==
    IF m.session = None
    THEN [m |-> m, exc |-> "AttributeError"]
    ELSE [m |-> m, exc |-> ""]

\* desconectar(): close() of the session, then self.session = None; on a
\* manager without a session None.close() raises.
Desconectar(m) ==
    IF m.session = None
    THEN [m |-> m, exc |-> "AttributeError"]
    ELSE [m |-> [m EXCEPT !.session = None], exc |-> ""]

\* The raw elements the instruments page is made of here: a full record, a
\* record without a type, a number.
ElementosDaPagina ==
    { Dict([name |-> "A", type |-> "T", serial_num |-> "S1", location |-> "L1",
            certif_end_date |-> "2026-01-01",
            exp_name |-> "[SPG0121] Ensaio 102", sensor_status |-> "#1",
            inst_range |-> << [min |-> "#0", max |-> "#10", unit |-> "bar"] >>]),
      Dict([name |-> "A"]),
      NaoDict }

\* What the GET of the instruments page gives: the request fails, the
\* status is an error, the page is the login page, the page holds no data,
\* or it holds a list of raw elements.
PaginasDeInstrumentos ==
    { [tipo |-> k, brutos |-> << >>] : k \in {"falha", "http", "login", "sem_dados"} }
    \cup { [tipo |-> "dados", brutos |-> b] :
             b \in {x \in Brutos : \A i \in 1..Len(x) : x[i] \in ElementosDaPagina} }

\* obter_lista_instrumentos() that asks a second time when the request
\* failed.
ObterListaComNovaTentativa(m, pagina, disco) ==
    IF m.session = None
    THEN [m |-> m, exc |-> "ConnectionError", lista |-> << >>]
    ELSE LET m1 == [m EXCEPT !.pedidos = @ + 1]
             m2 == [m EXCEPT !.pedidos = @ + 2]
         IN  CASE pagina.tipo = "falha"
                    -> [m |-> m2, exc |-> "ConnectionError", lista |-> << >>]
               [] pagina.tipo = "http"
                    -> [m |-> m1, exc |-> "ConnectionError", lista |-> << >>]
               [] pagina.tipo \in {"login", "sem_dados"}
                    -> [m |-> m1, exc |-> "ValueError", lista |-> << >>]
               [] OTHER ->
                    IF ~pagina.brutos[1].dict
                    THEN [m |-> m1, exc |-> "ValueError", lista |-> << >>]
                    ELSE LET n  == ProcessarDadosInstrumentos(pagina.brutos)
                             m3 == [m1 EXCEPT !.dados_instrumentos = n.lista]
                         IN  IF disco = "falha"
                             THEN [m |-> m3, exc |-> "ValueError", lista |-> << >>]
                             ELSE [m |-> m3, exc |-> "", lista |-> n.lista]

\* obter_lista_instrumentos(): without a session ConnectionError before any
\* request; otherwise one GET, whose RequestException (the request failed
\* or raise_for_status refused the status) is raised as ConnectionError,
\* and every other exception (login page, no data, a first element that is
\* no dict, the JSON file cannot be written) as ValueError.
ObterListaInstrumentos(m, pagina, disco) ==
    IF m.session = None
    THEN [m |-> m, exc |-> "ConnectionError", lista |-> << >>]
    ELSE LET m1 == [m EXCEPT !.pedidos = @ + 1]
         IN  CASE pagina.tipo \in {"falha", "http"}
                    -> [m |-> m1, exc |-> "ConnectionError", lista |-> << >>]
               [] pagina.tipo \in {"login", "sem_dados"}
                    -> [m |-> m1, exc |-> "ValueError", lista |-> << >>]
               [] OTHER ->
                    IF ~pagina.brutos[1].dict
                    THEN [m |-> m1, exc |-> "ValueError", lista |-> << >>]
                    ELSE LET n  == ProcessarDadosInstrumentos(pagina.brutos)
                             m3 == [m1 EXCEPT !.dados_instrumentos = n.lista]
                         IN  IF disco = "falha"
                             THEN [m |-> m3, exc |-> "ValueError", lista |-> << >>]
                             ELSE [m |-> m3, exc |-> "", lista |-> n.lista]

InicioSP ==
    /\ sp = SharePointManagerInicial
    /\ spAntes = SharePointManagerInicial
    /\ spChamada = ""
    /\ spEntrada = ""
    /\ spExc = ""
    /\ spDesconectado = FALSE

\* A caller of the manager calls conectar().
ChamarConectar ==
    \E roteiro \in RoteirosDeConexao :
        LET r == Conectar(sp, roteiro)
        IN  /\ r.m.pedidos <= MaxPedidos
            /\ sp' = r.m
            /\ spAntes' = sp
            /\ spChamada' = "conectar"
            /\ spEntrada' = roteiro
            /\ spExc' = r.exc
            /\ spDesconectado' = (spDesconectado \/ (spChamada = "desconectar" /\ spExc = ""))
            /\ UNCHANGED <<varsSinc, varsDM, varsNorm, varsConc, varsAt, varsGui>>

\* A caller of the manager calls desconectar().
ChamarDesconectar ==
    LET r == Desconectar(sp)
    IN  /\ sp' = r.m
        /\ spAntes' = sp
        /\ spChamada' = "desconectar"
        /\ spEntrada' = ""
        /\ spExc' = r.exc
        /\ spDesconectado' = (spDesconectado \/ (spChamada = "desconectar" /\ spExc = ""))
        /\ UNCHANGED <<varsSinc, varsDM, varsNorm, varsConc, varsAt, varsGui>>

\* A caller of the manager calls obter_lista_instrumentos().
ChamarObterLista ==
    \E pagina \in PaginasDeInstrumentos, disco \in {"ok", "falha"} :
        LET r == ObterListaInstrumentos(sp, pagina, disco)
        IN  /\ r.m.pedidos <= MaxPedidos
            /\ sp' = r.m
            /\ spAntes' = sp
            /\ spChamada' = "obter_lista_instrumentos"
            /\ spEntrada' = <<pagina, disco>>
            /\ spExc' = r.exc
            /\ spDesconectado' = (spDesconectado \/ (spChamada = "desconectar" /\ spExc = ""))
            /\ UNCHANGED <<varsSinc, varsDM, varsNorm, varsConc, varsAt, varsGui>>

\* ------------------------------------------------------------------ repositories.py
\* The names `from .models import ...` at the head of repositories.py asks
\* for, and the names the module models.py defines.
NomesImportados == {"SPG", "Ensaio", "Instrumento", "HistoricoInstrumento"}

NomesDeModels ==
    {"Column", "Integer", "String", "DateTime", "Text", "Date", "ForeignKey",
     "DeclarativeBase", "relationship", "datetime", "Base", "Instrumento"}

\* Importing database.repositories: the import of a name that models.py
\* does not define raises ImportError, and the module is not loaded.
ImportarRepositories ==
    IF NomesImportados \subseteq NomesDeModels THEN "" ELSE "ImportError"

\* The dicts given to atualizar, as the sequence of their (key, value)
\* pairs: none, one or both of a new location and a new name (or no name).
DadosDeAtualizacao ==
    LET loc  == {<<"localizacao", v>> : v \in {"L1", "L2"}}
        nome == {<<"nome", v>> : v \in {"A", None}}
    IN  {<< >>} \cup {<<x>> : x \in loc \cup nome}
        \cup {<<x, y>> : x \in loc, y \in nome}

\* One iteration of `for chave, valor in dados.items()`: a history entry and
\* the assignment when the value differs, nothing otherwise.
RECURSIVE LacoAtualizar(_, _, _)
LacoAtualizar(e, d, k) ==
    IF k = 0 THEN [e |-> e, novos |-> << >>]
    ELSE LET a     == LacoAtualizar(e, d, k - 1)
             chave == d[k][1]
             valor == d[k][2]
         IN  IF a.e[chave] # valor
             THEN [e |-> [a.e EXCEPT ![chave] = valor],
                   novos |-> Append(a.novos,
                                [instrumento_id |-> e.id,
                                 campo_alterado |-> chave,
                                 valor_anterior |-> Str(a.e[chave]),
                                 valor_novo |-> Str(valor)])]
             ELSE a

\* InstrumentoRepository.atualizar of repositories.py on the row at `pos`:
\* the loop, the stamp, the commit; a commit that fails (the store refuses
\* a NULL name, or cannot be written) is rolled back and False returned.
Atualizar(tab, hist, pos, d, commit, agora) ==
    LET a == LacoAtualizar(tab[pos], d, Len(d))
    IN  IF commit = "falha" \/ ~NotNullOk(a.e)
        THEN [tab |-> tab, hist |-> hist, retorno |-> "False",
              data_atualizacao |-> None]
        ELSE [tab |-> [tab EXCEPT ![pos] = a.e], hist |-> hist \o a.novos,
              retorno |-> "True", data_atualizacao |-> agora]

InicioAt ==
    /\ atChamada = << >>
    /\ atRetorno = ""

\* ------------------------------------------------------------------ main window
\* The six widgets the start handlers disable, all set to b.
Habilitar(j, b) ==
    [j EXCEPT !.btn_arquivo = b, !.btn_sharepoint = b, !.btn_geral = b,
              !.btn_spg_ensaio = b, !.combo_spg = b, !.combo_ensaio = b]

\* MainWindow after __init__ and _configurar_interface. viva: the process
\* runs (an exception that leaves a slot ends it). caixa: the message box
\* shown last.
JanelaInicial ==
    [viva |-> TRUE,
     btn_arquivo |-> TRUE, btn_sharepoint |-> TRUE, btn_geral |-> FALSE,
     btn_spg_ensaio |-> FALSE, combo_spg |-> TRUE, combo_ensaio |-> TRUE,
     barra |-> FALSE, arquivo_excel |-> << >>, pasta_saida |-> None,
     dm |-> << >>, spg |-> "", ensaio |-> "", label_status |-> "", caixa |-> ""]

\* The spreadsheets the file dialog offers: a file that is gone when it is
\* read, a sheet without the SPG column, sheets with no row and with one.
ArquivosDaJanela ==
    {a \in Arquivos :
        /\ a.colunas # ColunasNecessarias \ {"Status"}
        /\ a.linhas \in {<< >>, << [SPG |-> "SPG0121", Ensaio |-> "Ensaio 101"] >>}}

Primeiro(lista) == IF lista = << >> THEN "" ELSE lista[1]

\* MainWindow.carregar_dados: the window's DataManager loads the file and
\* the combos are filled (the first item is the current one); an exception
\* is shown in a message box.
CarregarDadosDaJanela(j) ==
    LET c == IF j.arquivo_excel = << >>
             THEN [dados |-> j.dm, exc |-> "AttributeError"]
             ELSE CarregarDados(j.dm, j.arquivo_excel[1])
        spg == Primeiro(ObterSpgs(c.dados).lista)
    IN  IF c.exc # ""
        THEN [j EXCEPT !.dm = c.dados, !.caixa = "Erro"]
        ELSE [j EXCEPT !.dm = c.dados, !.spg = spg,
                       !.ensaio = Primeiro(ObterEnsaios(c.dados, spg).lista)]

\* finalizar_geracao(caminho_arquivo): the widgets are enabled, the bar is
\* hidden, and a path is announced.
FinalizarGeracao(j, caminho) ==
    [Habilitar(j, TRUE) EXCEPT !.barra = FALSE,
                               !.caixa = IF caminho # None THEN "Sucesso" ELSE @]

\* mostrar_erro(mensagem).
MostrarErro(j) == FinalizarGeracao([j EXCEPT !.caixa = "Erro"], None)

\* finalizar_carregamento_sharepoint(caminho_arquivo): the file becomes the
\* window's file (no code writes it) and is loaded.
FinalizarCarregamentoSharepoint(j) ==
    LET c == CarregarDadosDaJanela([j EXCEPT !.arquivo_excel = <<NaoExiste>>])
    IN  [Habilitar(c, TRUE) EXCEPT !.barra = FALSE, !.caixa = "Sucesso"]

\* The start handlers' first half: the widgets disabled, the bar shown.
Desabilitar(j) == [Habilitar(j, FALSE) EXCEPT !.barra = TRUE]

\* A worker as its __init__ leaves it, started.
Worker(tipo, arq, spg, ensaio) ==
    [tipo |-> tipo, arquivo |-> arq, spg |-> spg, ensaio |-> ensaio,
     estado |-> "iniciada", terminais |-> << >>, obtido |-> FALSE]

\* GeradorTabelaThread.run: the signals it emits, in order.
RunGerador(w, planilha) ==
    LET c == IF w.arquivo = << >>
             THEN [dados |-> << >>, exc |-> "AttributeError"]
             ELSE CarregarDados(<< >>, w.arquivo[1])
        filtrados == IF c.dados = << >> THEN << >>
                     ELSE SelectSeq(c.dados[1].linhas,
                            LAMBDA l : l.SPG = w.spg /\ l.Ensaio = w.ensaio)
        inicio == << <<"progresso", "Carregando dados...">> >>
        meio   == Append(inicio, <<"progresso", "Gerando tabela...">>)
    IN  IF c.exc # "" THEN Append(inicio, <<"erro", c.exc>>)
        ELSE IF w.spg # "" /\ w.ensaio # "" /\ filtrados = << >>
            THEN Append(meio, <<"erro", "ValueError">>)
        ELSE IF planilha = "erro" THEN Append(meio, <<"erro", "OSError">>)
        ELSE meio \o << <<"progresso", "Tabela gerada com sucesso!">>,
                        <<"finalizado", "planilha">> >>

\* CarregarDadosSharePointThread.run on the manager its __init__ made:
\* whether obter_lista_instrumentos returned, and the signals emitted.
\* SharePointManager has no method salvar_dados_excel, so the call after
\* the list was obtained raises AttributeError.
RunSharePoint(roteiro, pagina, disco) ==
    LET c == Conectar(SharePointManagerInicial, roteiro)
        o == ObterListaInstrumentos(c.m, pagina, disco)
        s1 == << <<"progresso", "Conectando ao SharePoint...">> >>
        s2 == Append(s1, <<"progresso", "Obtendo dados dos instrumentos...">>)
        s3 == Append(s2, <<"progresso", "Salvando dados em arquivo Excel...">>)
    IN  IF c.exc # "" THEN [obtido |-> FALSE, sinais |-> Append(s1, <<"erro", c.exc>>)]
        ELSE IF o.exc # "" THEN [obtido |-> FALSE, sinais |-> Append(s2, <<"erro", o.exc>>)]
        ELSE [obtido |-> TRUE, sinais |-> Append(s3, <<"erro", "AttributeError">>)]

\* What run() of a worker can do, over what the disk and the server answer.
RunDe(w) ==
    IF w.tipo = "gerador"
    THEN { [obtido |-> FALSE, sinais |-> RunGerador(w, planilha)] :
              planilha \in {"ok", "erro"} }
    ELSE { RunSharePoint(roteiro, pagina, disco) :
              roteiro \in RoteirosDeConexao, pagina \in PaginasDeInstrumentos,
              disco \in {"ok", "falha"} }

\* The terminal signals among the signals of a run.
Terminais(sinais) ==
    LET t == SelectSeq(sinais, LAMBDA s : s[1] \in {"finalizado", "erro"})
    IN  [i \in 1..Len(t) |-> t[i][1]]

InicioGui ==
    /\ janela = JanelaInicial
    /\ workers = << >>
    /\ fila = << >>
    /\ partidas = 0

\* The user picks a file in the dialog of selecionar_arquivo.
SelecionarArquivo ==
    /\ janela.viva /\ janela.btn_arquivo
    /\ \E a \in ArquivosDaJanela :
          LET j == CarregarDadosDaJanela([janela EXCEPT !.arquivo_excel = <<a>>,
                                                       !.pasta_saida = "output"])
          IN  janela' = [j EXCEPT !.btn_geral = TRUE, !.btn_spg_ensaio = TRUE]
    /\ UNCHANGED <<workers, fila, partidas, varsSinc, varsDM, varsNorm, varsConc,
                   varsSP, varsAt>>

\* The user clicks "Carregar Dados do SharePoint": carregar_dados_sharepoint.
\* The mkdir of the output folder may fail before anything is disabled.
CarregarDadosSharepoint ==
    /\ janela.viva /\ janela.btn_sharepoint
    /\ partidas < MaxPartidas
    /\ \E mkdir \in {"ok", "erro"} :
          IF mkdir = "erro"
          THEN /\ janela' = [janela EXCEPT !.viva = FALSE, !.pasta_saida = "Documents"]
               /\ UNCHANGED <<workers, partidas>>
          ELSE /\ janela' = [Desabilitar(janela) EXCEPT !.pasta_saida = "Documents"]
               /\ workers' = Append(workers, Worker("sharepoint", << >>, "", ""))
               /\ partidas' = partidas + 1
    /\ UNCHANGED <<fila, varsSinc, varsDM, varsNorm, varsConc, varsSP, varsAt>>

\* iniciar_geracao(spg, ensaio): the widgets are disabled and the bar shown,
\* then GeradorTabelaThread is constructed, which constructs an
\* ExcelManager; when that raises, the handler is left and no thread runs.
IniciarGeracao(spg, ensaio) ==
    /\ partidas < MaxPartidas
    /\ partidas' = partidas + 1
    /\ \E construtor \in {"ok", "erro"} :
          IF construtor = "erro" \/ janela.pasta_saida = None
          THEN /\ janela' = [Desabilitar(janela) EXCEPT !.viva = FALSE]
               /\ UNCHANGED workers
          ELSE /\ janela' = Desabilitar(janela)
               /\ workers' = Append(workers,
                                Worker("gerador", janela.arquivo_excel, spg, ensaio))
    /\ UNCHANGED <<fila, varsSinc, varsDM, varsNorm, varsConc, varsSP, varsAt>>

\* The user clicks "Gerar Tabela Geral".
GerarTabelaGeral ==
    /\ janela.viva /\ janela.btn_geral
    /\ IniciarGeracao("", "")

\* The user clicks "Gerar Tabela SPG/Ensaio": a warning when a combo is
\* empty, otherwise the start.
GerarTabelaEnsaio ==
    /\ janela.viva /\ janela.btn_spg_ensaio
    /\ IF janela.spg = "" \/ janela.ensaio = ""
       THEN /\ janela' = [janela EXCEPT !.caixa = "Aviso"]
            /\ UNCHANGED <<workers, fila, partidas, varsSinc, varsDM, varsNorm,
                           varsConc, varsSP, varsAt>>
       ELSE IniciarGeracao(janela.spg, janela.ensaio)

\* A started worker runs its run() to the end; its signals are queued for
\* the GUI thread.
Run ==
    \E i \in 1..Len(workers) :
        /\ janela.viva
        /\ workers[i].estado = "iniciada"
        /\ \E r \in RunDe(workers[i]) :
              /\ workers' = [workers EXCEPT ![i] =
                     [@ EXCEPT !.estado = "terminada",
                               !.terminais = Terminais(r.sinais),
                               !.obtido = r.obtido]]
              /\ fila' = fila \o [k \in 1..Len(r.sinais) |->
                                   [de |-> i, sinal |-> r.sinais[k][1],
                                    arg |-> r.sinais[k][2]]]
        /\ UNCHANGED <<janela, partidas, varsSinc, varsDM, varsNorm, varsConc,
                       varsSP, varsAt>>

\* The GUI thread handles the oldest queued signal with the slot connected
\* to it: atualizar_progresso, mostrar_erro, and for finalizado
\* finalizar_geracao or finalizar_carregamento_sharepoint.
TratarSinal ==
    /\ janela.viva
    /\ fila # << >>
    /\ LET s == Head(fila)
       IN  janela' =
             CASE s.sinal = "progresso" -> [janela EXCEPT !.label_status = s.arg]
               [] s.sinal = "erro"      -> MostrarErro(janela)
               [] OTHER ->
                    IF workers[s.de].tipo = "gerador"
                    THEN FinalizarGeracao(janela, s.arg)
                    ELSE FinalizarCarregamentoSharepoint(janela)
    /\ fila' = Tail(fila)
    /\ UNCHANGED <<workers, partidas, varsSinc, varsDM, varsNorm, varsConc,
                   varsSP, varsAt>>

InicioResto == InicioSP /\ InicioAt /\ InicioGui

InitGui == InicioSinc /\ InicioDM /\ InicioNorm /\ InicioConc /\ InicioResto

NextGui ==
    \/ SelecionarArquivo
    \/ CarregarDadosSharepoint
    \/ GerarTabelaGeral
    \/ GerarTabelaEnsaio
    \/ Run
    \/ TratarSinal

SpecGui == InitGui /\ [][NextGui]_vars

InitSP == InicioSinc /\ InicioDM /\ InicioNorm /\ InicioConc /\ InicioResto

NextSP == ChamarConectar \/ ChamarDesconectar \/ ChamarObterLista

SpecSP == InitSP /\ [][NextSP]_vars

InitDM == InicioSinc /\ InicioDM /\ InicioNorm /\ InicioConc /\ InicioResto

NextDM == ChamarCarregarDados \/ ChamarObterSpgs \/ ChamarObterEnsaios

SpecDM == InitDM /\ [][NextDM]_vars

\* ------------------------------------------------------------------ actions
\* obter_lista_instrumentos hands the extracted list to the normalizer.
ChamarProcessarDados ==
    /\ fase = "bruto"
    /\ LET n == ProcessarDadosInstrumentos(bruto)
       IN  /\ saida' = n.lista
           /\ logNorm' = n.log
    /\ fase' = "processado"
    /\ UNCHANGED <<bruto, varsSinc, varsDM, varsConc, varsResto>>

\* The tables a behaviour starts from: what one earlier run of
\* sincronizar_dados left of an empty table (rows of that run carry clock 0).
TabelasIniciais ==
    { Sincronizar(<< >>, itens, 0).linhas : itens \in LotesAte(MaxInicial) }

Init ==
    /\ db \in TabelasIniciais
    /\ historico = << >>
    /\ historicoAntes = << >>
    /\ runs = 0
    /\ antes = << >>
    /\ lote = << >>
    /\ resultado = "nenhum"
    /\ estatisticas = Zeros
    /\ resolvidos = << >>
    /\ repetido = FALSE
    /\ sessao = ""
    /\ excecao = ""
    /\ InicioDM
    /\ InicioNorm
    /\ InicioConc
    /\ InicioResto

\* One call of sincronizar_dados with `itens`, as main() makes it.
Chamar(itens) ==
    LET r == Sincronizar(db, itens, runs + 1)
    IN  /\ db' = r.linhas
        /\ antes' = db
        /\ lote' = itens
        /\ resultado' = IF r.ok THEN "ok" ELSE "erro"
        /\ estatisticas' = r.estatisticas
        /\ resolvidos' = r.res
        /\ sessao' = r.fim
        /\ excecao' = r.exc
        /\ runs' = runs + 1
        /\ historicoAntes' = historico
        /\ UNCHANGED historico

\* main() of gerenciador_instrumentos run on a JSON file.
SincronizarDados ==
    /\ resultado = "nenhum"
    /\ \E itens \in Lotes : Chamar(itens)
    /\ repetido' = FALSE
    /\ UNCHANGED <<varsDM, varsNorm, varsConc, varsResto>>

\* main() run once more on the same, unchanged JSON file.
SincronizarDeNovo ==
    /\ resultado # "nenhum"
    /\ ~repetido
    /\ Chamar(lote)
    /\ repetido' = TRUE
    /\ UNCHANGED <<varsDM, varsNorm, varsConc, varsResto>>

Next == SincronizarDados \/ SincronizarDeNovo

\* main() run on the list the normalizer returned, saved as JSON.
SincronizarSaida ==
    /\ fase = "processado"
    /\ Chamar([i \in 1..Len(saida) |-> ComoItem(saida[i])])
    /\ repetido' = FALSE
    /\ fase' = "sincronizado"
    /\ UNCHANGED <<bruto, saida, logNorm, varsDM, varsConc, varsResto>>

InitNorm ==
    /\ InicioSinc
    /\ InicioDM
    /\ InicioConc
    /\ InicioResto
    /\ bruto \in Brutos
    /\ saida = << >>
    /\ logNorm = << >>
    /\ fase = "bruto"

NextNorm == ChamarProcessarDados \/ SincronizarSaida

SpecNorm == InitNorm /\ [][NextNorm]_vars

\* ------------------------------------------------------------------ two runs
\* An UPDATE whose row another session has deleted since the query: it
\* matches no row and the flush raises StaleDataError.
Obsoleta(tab, e) ==
    e.op = "UPDATE" /\ e.id \notin {tab[i].id : i \in 1..Len(tab)}

\* The flush of a session whose query saw an earlier state of the table:
\* its statements run on the table as it is at the commit.
RECURSIVE FlushNaTabela(_, _, _, _)
FlushNaTabela(tab, escritas, k, agora) ==
    IF k = 0 THEN [ok |-> TRUE, tab |-> tab]
    ELSE LET f == FlushNaTabela(tab, escritas, k - 1, agora)
         IN  IF ~f.ok THEN f
             ELSE IF Recusada(escritas[k]) \/ Obsoleta(f.tab, escritas[k])
                 THEN [ok |-> FALSE, tab |-> f.tab]
             ELSE [ok |-> TRUE, tab |-> Executar(f.tab, escritas[k], agora)]

\* Run p reaches its query: self.db.query(Instrumento).all().
Consultar(p) ==
    /\ pc[p] = "inicio"
    /\ visto' = [visto EXCEPT ![p] = db]
    /\ pc' = [pc EXCEPT ![p] = "consultado"]
    /\ eventos' = Append(eventos, <<p, "query">>)
    /\ UNCHANGED <<varsSinc, varsDM, varsNorm, varsResto, pedido, desfecho, inseridos>>

\* Run p works through its batch on what its query returned and commits
\* (or fails and rolls back).
Confirmar(p) ==
    /\ pc[p] = "consultado"
    /\ LET s == Remover(Laco(visto[p], pedido[p], Len(pedido[p])))
           w == Escritas(visto[p], s)
           f == IF s.exc # "" THEN [ok |-> FALSE, tab |-> db]
                ELSE FlushNaTabela(db, w, Len(w), runs + 1)
           depois == IF f.ok THEN f.tab ELSE Rollback(db, f.tab)
       IN  /\ db' = depois
           /\ desfecho' = [desfecho EXCEPT ![p] = IF f.ok THEN "ok" ELSE "erro"]
           /\ inseridos' = [inseridos EXCEPT ![p] =
                    {depois[i].id : i \in 1..Len(depois)}
                        \ {db[i].id : i \in 1..Len(db)}]
    /\ runs' = runs + 1
    /\ pc' = [pc EXCEPT ![p] = "fim"]
    /\ eventos' = Append(eventos, <<p, "commit">>)
    /\ UNCHANGED <<historico, historicoAntes, antes, lote, resultado,
                   estatisticas, resolvidos, repetido, sessao, excecao,
                   varsDM, varsNorm, varsResto, visto, pedido>>

InitConc ==
    /\ db \in TabelasIniciais
    /\ historico = << >>
    /\ historicoAntes = << >>
    /\ runs = 0
    /\ antes = << >>
    /\ lote = << >>
    /\ resultado = "nenhum"
    /\ estatisticas = Zeros
    /\ resolvidos = << >>
    /\ repetido = FALSE
    /\ sessao = ""
    /\ excecao = ""
    /\ InicioDM
    /\ InicioNorm
    /\ InicioResto
    /\ pc = [p \in Execucoes |-> "inicio"]
    /\ visto = [p \in Execucoes |-> << >>]
    /\ pedido \in [Execucoes -> LotesAte(MaxConcorrente)]
    /\ desfecho = [p \in Execucoes |-> ""]
    /\ inseridos = [p \in Execucoes |-> {}]
    /\ eventos = << >>

NextConc == \E p \in Execucoes : Consultar(p) \/ Confirmar(p)

SpecConc == InitConc /\ [][NextConc]_vars

Spec == Init /\ [][Next]_vars

\* A program imports database.repositories and calls atualizar on a row of
\* the table.
ChamarAtualizar ==
    \E pos \in 1..Len(db), d \in DadosDeAtualizacao, commit \in {"ok", "falha"} :
        /\ Len(historico) + Len(d) <= MaxHistorico
        /\ atChamada' = << [id |-> db[pos].id, dados |-> d, commit |-> commit] >>
        /\ antes' = db
        /\ historicoAntes' = historico
        /\ IF ImportarRepositories # ""
           THEN /\ atRetorno' = ImportarRepositories
                /\ UNCHANGED <<db, historico>>
           ELSE LET r == Atualizar(db, historico, pos, d, commit, runs + 1)
                IN  /\ atRetorno' = r.retorno
                    /\ db' = r.tab
                    /\ historico' = r.hist
        /\ UNCHANGED <<runs, lote, resultado, estatisticas, resolvidos, repetido,
                       sessao, excecao, varsDM, varsNorm, varsConc, varsSP,
                       varsGui>>

InitAt ==
    /\ db \in TabelasIniciais
    /\ historico = << >>
    /\ historicoAntes = << >>
    /\ runs = 0
    /\ antes = << >>
    /\ lote = << >>
    /\ resultado = "nenhum"
    /\ estatisticas = Zeros
    /\ resolvidos = << >>
    /\ repetido = FALSE
    /\ sessao = ""
    /\ excecao = ""
    /\ InicioDM
    /\ InicioNorm
    /\ InicioConc
    /\ InicioResto

NextAt == ChamarAtualizar

SpecAt == InitAt /\ [][NextAt]_vars

\* ------------------------------------------------------------------ views
\* What a reader of the table and of the last call's result can see.
Ids(tab) == {tab[i].id : i \in 1..Len(tab)}

LinhaDe(tab, id) == tab[CHOOSE i \in 1..Len(tab) : tab[i].id = id]

\* The rows of the snapshot that the last call matched to some item.
Casados == {resolvidos[i] : i \in 1..Len(resolvidos)} \ {0}

\* Identity key: the serial number if present, otherwise the name.
ChaveDaLinha(e) == IF Truthy(e.numero_serie) THEN e.numero_serie ELSE e.nome

ChaveDoItem(r) == IF Truthy(r.NumeroSerie) THEN r.NumeroSerie ELSE r.Instrumento

ChavesDoLote == {ChaveDoItem(lote[i]) : i \in 1..Len(lote)}

\* The text columns of a row equal the item's values.
TextoCopiado(e, r) ==
    /\ e.spg = r.SPG /\ e.ensaio = r.Ensaio /\ e.nome = r.Instrumento
    /\ e.tipo = r.Tipo /\ e.marca = r.Marca /\ e.modelo = r.Modelo
    /\ e.numero_serie = r.NumeroSerie /\ e.localizacao = r.Localizacao
    /\ e.faixa = r.Faixa /\ e.unidade = r.Unidade /\ e.status = r.Status
    /\ e.classe = r.Classe /\ e.certificado = r.Certificado
    /\ e.descricao = r.Descricao
    /\ e.criterio_aceitacao = r.CriterioAceitacao
    /\ e.intervalo_operacao = r.IntervaloOperacao

\* An expiry that is text, not the placeholder, and not a YYYY-MM-DD date.
Malformada(v) == Truthy(v) /\ v # "-" /\ v # NaoTexto /\ Strptime(v).exc # ""

\* All columns of two rows but the id and the timestamp agree.
MesmasColunas(e, f) ==
    \A c \in DOMAIN e \ {"id", "data_criacao"} : e[c] = f[c]

\* ------------------------------------------------------------------ C1
\* C1: when sincronizar_dados(B) has just succeeded, running it again with
\* the same B returns adicionados = 0, atualizados = 0, removidos = 0 and
\* leaves the rows and the history unchanged.
C1_Idempotencia ==
    (repetido /\ resultado = "ok") =>
        /\ estatisticas.adicionados = 0
        /\ estatisticas.atualizados = 0
        /\ estatisticas.removidos = 0
        /\ db = antes
        /\ historico = historicoAntes

\* ------------------------------------------------------------------ C2
\* C2: when a run of sincronizar_dados fails, while processing an item or at
\* commit, the rows read afterwards are exactly the rows that existed before
\* the run (and so is the history): nothing the failed run staged is visible.
C2_Atomicidade ==
    resultado = "erro" => (db = antes /\ historico = historicoAntes)

\* A run that failed at commit after the flush had written an UPDATE: its
\* first item changed the location of a matched row, its second item is a new
\* instrument without a type.
C2_Testemunha ==
    /\ resultado = "erro"
    /\ Len(lote) = 2
    /\ Len(resolvidos) = 2
    /\ resolvidos[1] # 0
    /\ resolvidos[2] = 0
    /\ lote[1].Tipo # None /\ lote[1].Instrumento # None
    /\ LinhaDe(antes, resolvidos[1]).localizacao # lote[1].Localizacao
    /\ lote[2].Tipo = None

\* ------------------------------------------------------------------ C3
\* C3: a table holding one instrument, reconciled against a batch of one item
\* with the same serial number that differs only in its location: the run
\* appends exactly one history entry (field localizacao, old value, new
\* value) and returns atualizados = 1, adicionados = 0, removidos = 0.
C3_EstabilidadeDeIdentidade ==
    ( /\ resultado = "ok"
      /\ Len(antes) = 1
      /\ Len(lote) = 1
      /\ Truthy(lote[1].NumeroSerie) /\ lote[1].NumeroSerie # "-"
      /\ antes[1].numero_serie = lote[1].NumeroSerie
      /\ antes[1].localizacao # lote[1].Localizacao
      /\ TextoCopiado([antes[1] EXCEPT !.localizacao = lote[1].Localizacao],
                      lote[1])
      /\ Isoformat(antes[1].validade_certificado) = lote[1].ValidadeCertificado )
    =>
    ( /\ estatisticas.atualizados = 1
      /\ estatisticas.adicionados = 0
      /\ estatisticas.removidos = 0
      /\ Len(historico) = Len(historicoAntes) + 1
      /\ historico[Len(historico)] =
            [instrumento_id |-> antes[1].id,
             campo_alterado |-> "localizacao",
             valor_anterior |-> antes[1].localizacao,
             valor_novo |-> lote[1].Localizacao] )

\* ------------------------------------------------------------------ C4
\* C4: atualizados counts the rows that actually changed: an item equal in
\* every field to its matched row adds nothing to it, and a row with several
\* changed fields adds exactly one.
C4_AtualizadosContaMudancas ==
    resultado = "ok" =>
        estatisticas.atualizados =
            Cardinality({id \in Ids(antes) \cap Ids(db) :
                            LinhaDe(antes, id) # LinhaDe(db, id)})

\* ------------------------------------------------------------------ C5
\* No row of the snapshot and no item of the batch carries the placeholder
\* as its serial number (how "-" is resolved is C7's subject).
SemPlaceholder ==
    /\ \A i \in 1..Len(antes) : antes[i].numero_serie # "-"
    /\ \A i \in 1..Len(lote) : lote[i].NumeroSerie # "-"

ItensNovos == SelectSeq([i \in 1..Len(resolvidos) |-> <<lote[i], resolvidos[i]>>],
                        LAMBDA p : p[2] = 0)

LinhasNovas == SelectSeq(db, LAMBDA e : e.id \notin Ids(antes))

\* An item whose serial number is held by no row of the snapshot and whose
\* name is held by no row of the snapshot.
SemPar(r) ==
    /\ ~\E i \in 1..Len(antes) :
          Truthy(r.NumeroSerie) /\ antes[i].numero_serie = r.NumeroSerie
    /\ ~\E i \in 1..Len(antes) :
          Truthy(r.Instrumento) /\ antes[i].nome = r.Instrumento

\* The expiry of a row read back as text, as to_dict renders it.
ValidadeComoTexto(e) == Isoformat(e.validade_certificado)

\* The bookkeeping of a successful run that both readings of C6 share: an
\* item without a match is treated as new, each new item is counted in
\* adicionados and yields one inserted row, and when every item is new every
\* surviving row is untouched.
C6_Contabilidade ==
    /\ \A i \in 1..Len(lote) : SemPar(lote[i]) => resolvidos[i] = 0
    /\ Len(LinhasNovas) = Len(ItensNovos)
    /\ estatisticas.adicionados = Len(ItensNovos)
    /\ (\A i \in 1..Len(lote) : SemPar(lote[i])) =>
          \A id \in Ids(antes) \cap Ids(db) : LinhaDe(db, id) = LinhaDe(antes, id)

\* C6 as stated: an item whose serial number and name match no row adds one
\* to adicionados and produces exactly one new row whose fields equal the
\* item's fields (the expiry read back as text); no existing row is modified.
C6_NovoVerbatim ==
    resultado = "ok" =>
        /\ C6_Contabilidade
        /\ \A k \in 1..Len(ItensNovos) :
              /\ TextoCopiado(LinhasNovas[k], ItensNovos[k][1])
              /\ ValidadeComoTexto(LinhasNovas[k]) =
                    ItensNovos[k][1].ValidadeCertificado

\* C6 as amended: an item whose serial number and name match no row adds one
\* to adicionados and produces exactly one new row whose text fields equal
\* the item's fields and whose expiry is the date the item's expiry denotes
\* when that is a YYYY-MM-DD text, and NULL when it is the placeholder,
\* absent or malformed; no existing row is modified.
C6_Novo ==
    resultado = "ok" =>
        /\ C6_Contabilidade
        /\ \A k \in 1..Len(ItensNovos) :
              /\ TextoCopiado(LinhasNovas[k], ItensNovos[k][1])
              /\ ValidadeComoTexto(LinhasNovas[k]) =
                    IF ItensNovos[k][1].ValidadeCertificado \in {None, "", "-"}
                       \/ Malformada(ItensNovos[k][1].ValidadeCertificado)
                    THEN None
                    ELSE ItensNovos[k][1].ValidadeCertificado

\* A successful run on a non-empty table that inserted a row for an item
\* with a malformed expiry and kept an existing row.
C6_Testemunha ==
    /\ resultado = "ok"
    /\ Ids(antes) \cap Ids(db) # {}
    /\ \E k \in 1..Len(ItensNovos) :
          /\ SemPar(ItensNovos[k][1])
          /\ Malformada(ItensNovos[k][1].ValidadeCertificado)

\* ------------------------------------------------------------------ C7
\* C7: an item whose serial number is the placeholder "-" is resolved by name
\* only: it is never matched to a row with a different name.
C7_PlaceholderNaoIdentifica ==
    \A i \in 1..Len(resolvidos) :
        (lote[i].NumeroSerie = "-" /\ resolvidos[i] # 0) =>
            LinhaDe(antes, resolvidos[i]).nome = lote[i].Instrumento

\* ------------------------------------------------------------------ C8
\* C8: an item is matched to a row holding its serial number when one
\* exists; only when the item has no serial number or no row holds it is the
\* item matched to a row holding its name; when neither exists it is new.
C8_OrdemDeBusca ==
    \A i \in 1..Len(resolvidos) :
        LET r == lote[i]
            porSerie == {antes[j].id : j \in {k \in 1..Len(antes) :
                            Truthy(r.NumeroSerie)
                            /\ antes[k].numero_serie = r.NumeroSerie}}
            porNome == {antes[j].id : j \in {k \in 1..Len(antes) :
                            Truthy(r.Instrumento)
                            /\ antes[k].nome = r.Instrumento}}
        IN  IF porSerie # {} THEN resolvidos[i] \in porSerie
            ELSE IF porNome # {} THEN resolvidos[i] \in porNome
            ELSE resolvidos[i] = 0

\* A successful run with an item whose serial number is held by one row and
\* whose name is held by another row only: it was matched by serial number.
C8_Testemunha ==
    /\ resultado = "ok"
    /\ \E i \in 1..Len(resolvidos) :
          /\ resolvidos[i] # 0
          /\ LinhaDe(antes, resolvidos[i]).numero_serie = lote[i].NumeroSerie
          /\ LinhaDe(antes, resolvidos[i]).nome # lote[i].Instrumento
          /\ \E j \in 1..Len(antes) : antes[j].nome = lote[i].Instrumento

\* ------------------------------------------------------------------ C9
\* C9: sincronizar_dados([]) on a table of n rows deletes all n rows and
\* returns removidos = n, adicionados = 0, atualizados = 0.
C9_LoteVazioLimpaTudo ==
    (resultado = "ok" /\ lote = << >>) =>
        /\ db = << >>
        /\ estatisticas.removidos = Len(antes)
        /\ estatisticas.adicionados = 0
        /\ estatisticas.atualizados = 0

\* ------------------------------------------------------------------ C10
\* C10: a malformed expiry in an item adds one to avisos and does not block
\* the item; for a matched row the stored expiry keeps the value it had
\* before the run.  (Stated for a batch of one item.)
C10_DataMalformada ==
    ( /\ resultado = "ok"
      /\ Len(lote) = 1
      /\ Malformada(lote[1].ValidadeCertificado) )
    =>
    ( /\ estatisticas.avisos = 1
      /\ estatisticas.adicionados + estatisticas.atualizados = 1
      /\ resolvidos[1] # 0 =>
            LinhaDe(db, resolvidos[1]).validade_certificado =
                LinhaDe(antes, resolvidos[1]).validade_certificado )

\* ------------------------------------------------------------------ C11
\* C11: sincronizar_dados returns its statistics only after the commit of the
\* whole batch; a run that ends in a rollback (an item's processing or the
\* commit failed) raises to its caller, returns no statistics and leaves the
\* rows as they were.
C11_EstatisticasSoComCommit ==
    /\ resultado = "ok" => (sessao = "commit" /\ excecao = "")
    /\ sessao = "rollback" =>
          (resultado = "erro" /\ excecao # "" /\ estatisticas = Zeros /\ db = antes)

\* A run whose first item was staged as a new instrument and counted, and
\* whose commit then failed on the second item: it raised IntegrityError.
C11_Testemunha ==
    /\ sessao = "rollback"
    /\ excecao = "IntegrityError"
    /\ Len(lote) = 2
    /\ Len(resolvidos) = 2
    /\ resolvidos[1] = 0
    /\ NotNullOk(Campos(lote[1], DataNula))
    /\ ~NotNullOk(Campos(lote[2], DataNula))

C13_CampoObrigatorioAusente ==
    ( /\ resultado # "nenhum"
      /\ SemPlaceholder
      /\ \E i \in 1..Len(lote) :
            lote[i].Instrumento = None \/ lote[i].Tipo = None )
    => (resultado = "erro" /\ db = antes)

\* ------------------------------------------------------------------ C14
\* The positions of the raw list the normalizer logged nothing about, in
\* order, and the raw element that the i-th returned record was made from.
IndicesMantidos ==
    SelectSeq([i \in 1..Len(bruto) |-> i],
              LAMBDA i : \A j \in 1..Len(logNorm) : logNorm[j].idx # i)

BrutoDe(i) == bruto[IndicesMantidos[i]]

\* C14: every record the normalizer returns holds every canonical field, and
\* a canonical field is the placeholder "-" when the raw dict supplied no
\* value for it.
C14_TodosOsCampos ==
    fase # "bruto" =>
        \A i \in 1..Len(saida) :
            /\ DOMAIN saida[i] = CamposCanonicos
            /\ \A k \in DOMAIN CampoBruto :
                  CampoBruto[k] \notin DOMAIN BrutoDe(i).campos => saida[i][k] = "-"
            /\ \A k \in {"Unidade", "Classe"} : saida[i][k] = "-"

\* ------------------------------------------------------------------ C15
\* C15: in every record the normalizer returns, no field is null or the
\* empty string: every value the record holds is a non-empty text (which
\* may be the placeholder), also when the raw value was an empty string.
\* (A field the record does not hold at all is C14's subject.)
C15_SemVazioNemNulo ==
    fase # "bruto" =>
        \A i \in 1..Len(saida) :
            \A k \in DOMAIN saida[i] : saida[i][k] # "" /\ saida[i][k] # None

\* ------------------------------------------------------------------ C16
\* A raw element that has a name and a type: a dict whose name and type are
\* present and are neither null, empty nor the placeholder.
TemValor(raw, k) ==
    /\ raw.dict
    /\ k \in DOMAIN raw.campos
    /\ raw.campos[k] \notin {None, "", "-"}

TemNomeETipo(raw) == TemValor(raw, "name") /\ TemValor(raw, "type")

\* C16: the list the normalizer returns holds one record for each raw
\* element that has a name and a type, in input order, and none for an
\* element that lacks either; the call itself raises nothing, whatever it
\* dropped.
C16_DescartaSemNomeOuTipo ==
    fase # "bruto" =>
        LET esperados == SelectSeq(bruto, TemNomeETipo)
        IN  /\ Len(saida) = Len(esperados)
            /\ \A i \in 1..Len(saida) :
                  /\ "Instrumento" \in DOMAIN saida[i]
                  /\ "Tipo" \in DOMAIN saida[i]
                  /\ saida[i]["Instrumento"] = Str(esperados[i].campos["name"])
                  /\ saida[i]["Tipo"] = Str(esperados[i].campos["type"])

\* ------------------------------------------------------------------ C17
\* A text in the form YYYY-MM-DD.
Canonica(s) == Strptime(s).exc = "" /\ Isoformat(Strptime(s).data) = s

\* C17: in every record the normalizer returns the expiry is a YYYY-MM-DD
\* text or the placeholder (or is not held): it is what _formatar_data gives
\* for the raw date, so a raw date in an accepted format counts no warning
\* in the sincronizar_dados that follows and its row holds the date.
C17_ValidadeCanonica ==
    /\ fase # "bruto" =>
          \A i \in 1..Len(saida) :
              LET v == GetOu(saida[i], "ValidadeCertificado", "-")
                  r == GetOu(BrutoDe(i).campos, "certif_end_date", "")
              IN  /\ v = "-" \/ Canonica(v)
                  /\ v = FormatarData(Str(r))
    /\ (fase = "sincronizado" /\ resultado = "ok") =>
          /\ estatisticas.avisos = 0
          /\ \A i \in 1..Len(saida) :
                LET r == GetOu(BrutoDe(i).campos, "certif_end_date", "")
                IN  (resolvidos[i] = 0 /\ FormatarData(Str(r)) # "-") =>
                        \E j \in 1..Len(db) :
                            Isoformat(db[j].validade_certificado) = FormatarData(Str(r))

\* ------------------------------------------------------------------ C18
\* The two runs ran one after the other: the run that queried first had
\* committed before the other queried.
EmSerie ==
    /\ Len(eventos) = 4
    /\ eventos[1][1] = eventos[2][1]
    /\ eventos[3][1] = eventos[4][1]

\* C18, for two runs given the same batch of one record that has a serial
\* number and that no row held: their queries and commits do not interleave,
\* and the two runs do not both insert the record.
C18_ExecucoesEmSerie ==
    ( /\ \A p \in Execucoes : pc[p] = "fim" /\ desfecho[p] = "ok"
      /\ pedido[1] = pedido[2]
      /\ Len(pedido[1]) = 1
      /\ Truthy(pedido[1][1].NumeroSerie) /\ pedido[1][1].NumeroSerie # "-"
      /\ \E p \in Execucoes : inseridos[p] # {} )
    =>
    ( /\ EmSerie
      /\ \E p \in Execucoes : inseridos[p] = {} )

\* ------------------------------------------------------------------ C19
Menor(S) == CHOOSE x \in S : \A y \in S : x <= y

\* C19: when several rows of the snapshot hold an item's serial number (or,
\* for an item resolved by name, its name), the item is matched to the one
\* that comes first in the snapshot.  (Stated for tables and batches
\* without placeholder serial numbers.)
C19_PrimeiroEncontrado ==
    SemPlaceholder =>
    \A i \in 1..Len(resolvidos) :
        LET r == lote[i]
            comSerie == {j \in 1..Len(antes) :
                            Truthy(r.NumeroSerie)
                            /\ antes[j].numero_serie = r.NumeroSerie}
            comNome == {j \in 1..Len(antes) :
                            Truthy(r.Instrumento)
                            /\ antes[j].nome = r.Instrumento}
        IN  IF comSerie # {} THEN resolvidos[i] = antes[Menor(comSerie)].id
            ELSE IF comNome # {} THEN resolvidos[i] = antes[Menor(comNome)].id
            ELSE TRUE

\* ------------------------------------------------------------------ C20
\* The items of the last batch whose identity key (serial number, or name
\* when there is no serial number) an earlier item of the batch also has.
Duplicados ==
    {i \in 1..Len(lote) :
        /\ Truthy(ChaveDoItem(lote[i]))
        /\ \E j \in 1..(i - 1) : ChaveDoItem(lote[j]) = ChaveDoItem(lote[i])}

\* C20: a batch with a duplicate identity key does not abort the run, and
\* the run's avisos counts the duplicate.  (Stated for batches whose
\* mandatory fields are present, whose expiry dates are text and whose
\* serial numbers are not the placeholder.)
C20_DuplicadoContaAviso ==
    ( /\ resultado # "nenhum"
      /\ SemPlaceholder
      /\ Duplicados # {}
      /\ \A i \in 1..Len(lote) :
            /\ NotNullOk(Campos(lote[i], DataNula))
            /\ lote[i].ValidadeCertificado # NaoTexto )
    =>
    ( /\ resultado = "ok"
      /\ estatisticas.avisos >= Cardinality(Duplicados) )

\* ------------------------------------------------------------------ C22
\* No two rows of the table share a serial number that is a value (neither
\* absent, empty nor the placeholder).
SerieUnica(tab) ==
    \A i, j \in 1..Len(tab) :
        ( /\ i # j
          /\ Truthy(tab[i].numero_serie)
          /\ tab[i].numero_serie # "-" )
        => tab[i].numero_serie # tab[j].numero_serie

\* C22: when no two rows share a serial number before a run that succeeds,
\* none do after it, whatever the batch, also when the batch holds the same
\* serial number twice.
C22_SerieUnicaPreservada ==
    (resultado = "ok" /\ SerieUnica(antes)) => SerieUnica(db)

\* ------------------------------------------------------------------ C23
\* C23: a row that an item of a successful run was matched to is still in
\* the table under the same id and with the creation timestamp it had, and
\* the run inserted a row only for the items it matched to no row.
C23_IdentidadePreservada ==
    resultado = "ok" =>
        /\ \A id \in Casados :
              /\ id \in Ids(db)
              /\ LinhaDe(db, id).data_criacao = LinhaDe(antes, id).data_criacao
        /\ Len(LinhasNovas) = Len(ItensNovos)

\* A successful run that changed a field of a matched row, which is still
\* there, and that also inserted a row for another item.
C23_Testemunha ==
    /\ resultado = "ok"
    /\ \E id \in Casados :
          /\ id \in Ids(db)
          /\ LinhaDe(db, id).localizacao # LinhaDe(antes, id).localizacao
    /\ Len(ItensNovos) = 1
    /\ Len(LinhasNovas) = 1

\* ------------------------------------------------------------------ C25
\* C25: in a successful run adicionados + atualizados is the number of items
\* of the batch.
C25_CadaItemContadoUmaVez ==
    resultado = "ok" =>
        estatisticas.adicionados + estatisticas.atualizados = Len(lote)

\* A successful run of two items, one matched and one new.
C25_Testemunha ==
    /\ resultado = "ok"
    /\ Len(lote) = 2
    /\ estatisticas.adicionados = 1
    /\ estatisticas.atualizados = 1

\* ------------------------------------------------------------------ C26
\* C26: after a successful run the table holds as many rows as before the
\* run plus adicionados minus removidos.
C26_EstatisticasBatemComATabela ==
    resultado = "ok" =>
        Len(db) = Len(antes) + estatisticas.adicionados - estatisticas.removidos

\* A successful run that inserted one row and deleted another.
C26_Testemunha ==
    /\ resultado = "ok"
    /\ estatisticas.adicionados = 1
    /\ estatisticas.removidos = 1
    /\ Len(antes) = 1
    /\ Len(db) = 1
    /\ Ids(db) \cap Ids(antes) = {}

\* ------------------------------------------------------------------ C27
\* C27, on tables whose rows all have a serial number or a name and without
\* placeholder serial numbers: every row of the snapshot that is still in
\* the table after a successful run was matched to an item of that run.
C27_SobreviventeFoiCasado ==
    ( /\ resultado = "ok"
      /\ SemPlaceholder
      /\ \A i \in 1..Len(antes) : Truthy(ChaveDaLinha(antes[i])) )
    => Ids(antes) \cap Ids(db) \subseteq Casados

\* ------------------------------------------------------------------ C21
\* C21: a call of obter_lista_instrumentos on a manager with a session sends
\* exactly one request, whatever the answer; when the request fails the
\* call raises ConnectionError, and when the page holds no data or data
\* that is no list of records it raises ValueError.
C21_FalhaDeRedeUmaVez ==
    (spChamada = "obter_lista_instrumentos" /\ spAntes.session # None) =>
        /\ sp.pedidos = spAntes.pedidos + 1
        /\ spEntrada[1].tipo = "falha" => spExc = "ConnectionError"
        /\ ( \/ spEntrada[1].tipo = "sem_dados"
             \/ (spEntrada[1].tipo = "dados" /\ ~spEntrada[1].brutos[1].dict) )
           => spExc = "ValueError"

\* After a conectar() that went well, the request of the instruments page
\* failed: one more request was sent and ConnectionError raised.
C21_Testemunha ==
    /\ spChamada = "obter_lista_instrumentos"
    /\ spAntes.session # None
    /\ spAntes.pedidos = 3
    /\ spEntrada[1].tipo = "falha"
    /\ spExc = "ConnectionError"
    /\ sp.pedidos = 4

\* ------------------------------------------------------------------ C30
\* C30: once desconectar() has returned, every later call on the manager
\* raises, sends no request and leaves the manager without a session:
\* obter_lista_instrumentos raises ConnectionError, a second desconectar
\* and a later conectar raise as well.
C30_DesconectadoNaoVolta ==
    spDesconectado =>
        /\ spExc # ""
        /\ sp = spAntes
        /\ sp.session = None
        /\ spChamada = "obter_lista_instrumentos" => spExc = "ConnectionError"

\* A conectar() on a manager that had been disconnected after two requests:
\* it raised and the count of requests is still two.
C30_Testemunha ==
    /\ spDesconectado
    /\ spChamada = "conectar"
    /\ spExc = "AttributeError"
    /\ sp.pedidos = 2
    /\ sp.session = None

\* ------------------------------------------------------------------ C24
\* The history entries atualizar() owes for a call: one for each key of the
\* dict whose value differs from the row's, in the order of the dict.
EntradasDevidas(e, d) ==
    LET mudados == SelectSeq(d, LAMBDA par : e[par[1]] # par[2])
    IN  [i \in 1..Len(mudados) |->
            [instrumento_id |-> e.id, campo_alterado |-> mudados[i][1],
             valor_anterior |-> Str(e[mudados[i][1]]),
             valor_novo |-> Str(mudados[i][2])]]

\* C24: a call of atualizar() whose commit goes well returns True and has
\* appended to the history exactly one entry (field, previous value, new
\* value) for each key of the dict whose value differed, and none for a key
\* whose value was the same; a call whose commit fails returns False and
\* leaves the rows and the history as they were.
C24_HistoricoPorCampoAlterado ==
    atChamada # << >> =>
        LET c == atChamada[1]
            e == LinhaDe(antes, c.id)
            falhou == \/ c.commit = "falha"
                      \/ \E i \in 1..Len(c.dados) :
                            c.dados[i][1] = "nome" /\ c.dados[i][2] = None
        IN  IF falhou
            THEN atRetorno = "False" /\ db = antes /\ historico = historicoAntes
            ELSE /\ atRetorno = "True"
                 /\ historico = historicoAntes \o EntradasDevidas(e, c.dados)

\* ------------------------------------------------------------------ C28
\* C28: a worker whose run() has ended has emitted exactly one terminal
\* signal, finalizado or erro, and the worker of a SharePoint load whose
\* list of instruments was obtained has emitted finalizado.
C28_UmSinalTerminal ==
    \A i \in 1..Len(workers) :
        workers[i].estado = "terminada" =>
            /\ Len(workers[i].terminais) = 1
            /\ workers[i].terminais[1] \in {"finalizado", "erro"}
            /\ (workers[i].tipo = "sharepoint" /\ workers[i].obtido)
               => workers[i].terminais = <<"finalizado">>

\* ------------------------------------------------------------------ C29
\* The workers whose run() has not ended.
EmExecucao == {i \in 1..Len(workers) : workers[i].estado = "iniciada"}

TodosHabilitados ==
    /\ janela.btn_arquivo /\ janela.btn_sharepoint /\ janela.btn_geral
    /\ janela.btn_spg_ensaio /\ janela.combo_spg /\ janela.combo_ensaio

TodosDesabilitados ==
    ~( \/ janela.btn_arquivo \/ janela.btn_sharepoint \/ janela.btn_geral
       \/ janela.btn_spg_ensaio \/ janela.combo_spg \/ janela.combo_ensaio )

\* C29: at most one worker runs at a time; while a worker runs or a signal
\* of it waits to be handled the widgets are disabled; and once a start has
\* been made and no worker runs and no signal waits, the widgets are
\* enabled and the progress bar is hidden.
C29_ControlesVoltam ==
    /\ Cardinality(EmExecucao) <= 1
    /\ (EmExecucao # {} \/ fila # << >>) => TodosDesabilitados
    /\ (partidas > 0 /\ EmExecucao = {} /\ fila = << >>)
       => (TodosHabilitados /\ ~janela.barra)

====
